---- MODULE Spec2Model ----
(***************************************************************************)
(* Model of databento/common/validation.py: validate_enum,                 *)
(* validate_maybe_enum and validate_gateway.                               *)
(*                                                                         *)
(* The three functions are pure.  The state machine below is a caller that *)
(* invokes one of them on arguments drawn from bounded sets and records    *)
(* the call and its outcome; validate_gateway may also be applied again to *)
(* the string it has just returned.                                        *)
(*                                                                         *)
(* A URL is a sequence of one-character strings.  Enum values, parameter   *)
(* names and the literal pieces of an error message are atomic strings; an *)
(* error message is the sequence of the pieces the f-string concatenates   *)
(* (the backquotes the messages put around a name are left out).           *)
(***************************************************************************)
EXTENDS Integers, Sequences, FiniteSets, TLC

VARIABLES op, arg, ret, prev

vars == <<op, arg, ret, prev>>

\* Longest URL handed to validate_gateway by the caller.
MaxLen == 4

\* Largest number of members of an enum type.
MaxMembers == 3

(***************************************************************************)
(* Outcomes of a call.                                                     *)
(***************************************************************************)
NoCall == [kind |-> "nocall"]

Return(v) == [kind |-> "return", value |-> v]

Raise(m) == [kind |-> "raise", exc |-> "ValueError", msg |-> m]

(***************************************************************************)
(* Strings as sequences of characters.                                     *)
(***************************************************************************)
RECURSIVE find(_, _, _)
\* str.find(c, start) with 1-based positions; 0 when c does not occur.
find(s, c, start) ==
    IF start > Len(s) THEN 0
    ELSE IF s[start] = c THEN start
    ELSE find(s, c, start + 1)

Contains(s, c) == \E k \in 1..Len(s) : s[k] = c

Suffix(s, from) == SubSeq(s, from, Len(s))

Min(a, b) == IF a < b THEN a ELSE b

\* s[:upto]; a slice past the end stops at the end.
Prefix(s, upto) == SubSeq(s, 1, Min(upto, Len(s)))

\* The characters urlsplit treats specially.
ascii_letters == {"a","b","c","d","e","f","g","h","i","j","k","l","m",
                  "n","o","p","q","r","s","t","u","v","w","x","y","z",
                  "A","B","C","D","E","F","G","H","I","J","K","L","M",
                  "N","O","P","Q","R","S","T","U","V","W","X","Y","Z"}

digits == {"0","1","2","3","4","5","6","7","8","9"}

scheme_chars == ascii_letters \cup digits \cup {"+", "-", "."}

\* Space and the C0 controls that occur in the modelled alphabet.
WHATWG_C0_CONTROL_OR_SPACE == {" ", "\t", "\n", "\r"}

UNSAFE_URL_BYTES_TO_REMOVE == {"\t", "\r", "\n"}

lower(c) ==
    CASE c = "A" -> "a" [] c = "B" -> "b" [] c = "C" -> "c" [] c = "D" -> "d"
      [] c = "E" -> "e" [] c = "F" -> "f" [] c = "G" -> "g" [] c = "H" -> "h"
      [] c = "I" -> "i" [] c = "J" -> "j" [] c = "K" -> "k" [] c = "L" -> "l"
      [] c = "M" -> "m" [] c = "N" -> "n" [] c = "O" -> "o" [] c = "P" -> "p"
      [] c = "Q" -> "q" [] c = "R" -> "r" [] c = "S" -> "s" [] c = "T" -> "t"
      [] c = "U" -> "u" [] c = "V" -> "v" [] c = "W" -> "w" [] c = "X" -> "x"
      [] c = "Y" -> "y" [] c = "Z" -> "z" [] OTHER -> c

str_lower(s) == [k \in 1..Len(s) |-> lower(s[k])]

RECURSIVE lstrip(_)
lstrip(s) ==
    IF s # <<>> /\ s[1] \in WHATWG_C0_CONTROL_OR_SPACE
    THEN lstrip(Tail(s))
    ELSE s

IsUnsafe(c) == c \in UNSAFE_URL_BYTES_TO_REMOVE

remove_unsafe(s) == SelectSeq(s, LAMBDA c : ~IsUnsafe(c))

(***************************************************************************)
(* urllib.parse.urlsplit and urlunsplit, as validate_gateway calls them.   *)
(***************************************************************************)
\* _splitnetloc(url, 2): the text after the leading "//" up to the first of
\* "/", "?", "#" is the network location; the rest stays in url.
splitnetloc(url) ==
    LET cut(c, d) == LET w == find(url, c, 3) IN IF w > 0 THEN Min(d, w) ELSE d
        delim == cut("#", cut("?", cut("/", Len(url) + 1)))
    IN  [netloc |-> SubSeq(url, 3, delim - 1), rest |-> Suffix(url, delim)]

SplitResult(scheme, netloc, path, query, fragment) ==
    [ok |-> TRUE, scheme |-> scheme, netloc |-> netloc, path |-> path,
     query |-> query, fragment |-> fragment, error |-> ""]

SplitError(e) ==
    [ok |-> FALSE, scheme |-> <<>>, netloc |-> <<>>, path |-> <<>>,
     query |-> <<>>, fragment |-> <<>>, error |-> e]

urlsplit(url0) ==
    LET url1 == remove_unsafe(lstrip(url0))
        i == find(url1, ":", 1)
        hasScheme == /\ i > 1
                     /\ url1[1] \in ascii_letters
                     /\ \A k \in 1..(i - 1) : url1[k] \in scheme_chars
        scheme == IF hasScheme THEN str_lower(Prefix(url1, i - 1)) ELSE <<>>
        url2 == IF hasScheme THEN Suffix(url1, i + 1) ELSE url1
        hasNetloc == Len(url2) >= 2 /\ url2[1] = "/" /\ url2[2] = "/"
        nl == IF hasNetloc THEN splitnetloc(url2)
              ELSE [netloc |-> <<>>, rest |-> url2]
        netloc == nl.netloc
        url3 == nl.rest
        h == find(url3, "#", 1)
        fragment == IF h > 0 THEN Suffix(url3, h + 1) ELSE <<>>
        url4 == IF h > 0 THEN Prefix(url3, h - 1) ELSE url3
        q == find(url4, "?", 1)
        query == IF q > 0 THEN Suffix(url4, q + 1) ELSE <<>>
        path == IF q > 0 THEN Prefix(url4, q - 1) ELSE url4
    IN  IF hasNetloc /\ (Contains(netloc, "[") # Contains(netloc, "]"))
        THEN SplitError("Invalid IPv6 URL")
        ELSE SplitResult(scheme, netloc, path, query, fragment)

uses_netloc == {<<>>, <<"h","t","t","p">>, <<"h","t","t","p","s">>,
                <<"f","t","p">>, <<"w","s">>, <<"w","s","s">>}

urlunsplit(scheme, netloc, path, query, fragment) ==
    LET url1 == IF \/ netloc # <<>>
                   \/ /\ scheme # <<>>
                      /\ scheme \in uses_netloc
                      /\ Prefix(path, 2) # <<"/", "/">>
                THEN <<"/", "/">> \o netloc \o
                     (IF path # <<>> /\ path[1] # "/" THEN <<"/">> \o path
                      ELSE path)
                ELSE path
        url2 == IF scheme # <<>> THEN scheme \o <<":">> \o url1 ELSE url1
        url3 == IF query # <<>> THEN url2 \o <<"?">> \o query ELSE url2
    IN  IF fragment # <<>> THEN url3 \o <<"#">> \o fragment ELSE url3

https == <<"h", "t", "t", "p", "s">>

(***************************************************************************)
(* validate_gateway                                                        *)
(***************************************************************************)
\* As validate_gateway, with all() where the code has any().
validate_gateway_all(url) ==
    LET url_chunks == urlsplit(url) IN
    IF ~url_chunks.ok
    THEN Raise([text |-> url_chunks.error, url |-> url])
    ELSE IF url_chunks.netloc = <<>> \/ url_chunks.path = <<>>
    THEN Raise([text |-> "{url} is not a valid URL", url |-> url])
    ELSE Return(urlunsplit(https, url_chunks.netloc, url_chunks.path,
                           <<>>, <<>>))

\* As validate_gateway, passing the parsed query on to urlunsplit.
validate_gateway_keeps_query(url) ==
    LET url_chunks == urlsplit(url) IN
    IF ~url_chunks.ok
    THEN Raise([text |-> url_chunks.error, url |-> url])
    ELSE IF url_chunks.netloc = <<>> /\ url_chunks.path = <<>>
    THEN Raise([text |-> "{url} is not a valid URL", url |-> url])
    ELSE IF url_chunks.netloc # <<>>
    THEN Return(urlunsplit(https, url_chunks.netloc, url_chunks.path,
                           url_chunks.query, <<>>))
    ELSE Return(urlunsplit(https, url_chunks.path, <<>>, <<>>, <<>>))

\* As validate_gateway, leaving the parsed path in the path position.
validate_gateway_path_as_path(url) ==
    LET url_chunks == urlsplit(url) IN
    IF ~url_chunks.ok
    THEN Raise([text |-> url_chunks.error, url |-> url])
    ELSE IF url_chunks.netloc = <<>> /\ url_chunks.path = <<>>
    THEN Raise([text |-> "{url} is not a valid URL", url |-> url])
    ELSE Return(urlunsplit(https, url_chunks.netloc, url_chunks.path,
                           <<>>, <<>>))

\* As validate_gateway, keeping the scheme the caller gave when there is one.
validate_gateway_keeps_scheme(url) ==
    LET url_chunks == urlsplit(url)
        scheme == IF url_chunks.scheme # <<>> THEN url_chunks.scheme ELSE https
    IN
    IF ~url_chunks.ok
    THEN Raise([text |-> url_chunks.error, url |-> url])
    ELSE IF url_chunks.netloc = <<>> /\ url_chunks.path = <<>>
    THEN Raise([text |-> "{url} is not a valid URL", url |-> url])
    ELSE IF url_chunks.netloc # <<>>
    THEN Return(urlunsplit(scheme, url_chunks.netloc, url_chunks.path,
                           <<>>, <<>>))
    ELSE Return(urlunsplit(scheme, url_chunks.path, <<>>, <<>>, <<>>))

\* As validate_gateway, gluing netloc and path with a "/" by hand.
validate_gateway_joins_slash(url) ==
    LET url_chunks == urlsplit(url) IN
    IF ~url_chunks.ok
    THEN Raise([text |-> url_chunks.error, url |-> url])
    ELSE IF url_chunks.netloc = <<>> /\ url_chunks.path = <<>>
    THEN Raise([text |-> "{url} is not a valid URL", url |-> url])
    ELSE IF url_chunks.netloc # <<>>
    THEN Return(https \o <<":", "/", "/">> \o url_chunks.netloc
                \o <<"/">> \o url_chunks.path)
    ELSE Return(urlunsplit(https, url_chunks.path, <<>>, <<>>, <<>>))

validate_gateway(url) ==
    LET url_chunks == urlsplit(url) IN
    IF ~url_chunks.ok
    THEN Raise([text |-> url_chunks.error, url |-> url])
    ELSE IF url_chunks.netloc = <<>> /\ url_chunks.path = <<>>
    THEN Raise([text |-> "{url} is not a valid URL", url |-> url])
    ELSE IF url_chunks.netloc # <<>>
    THEN Return(urlunsplit(https, url_chunks.netloc, url_chunks.path,
                           <<>>, <<>>))
    ELSE Return(urlunsplit(https, url_chunks.path, <<>>, <<>>, <<>>))

(***************************************************************************)
(* Values handed to the enum validators.  Every value is a record of the   *)
(* same shape: None, a str, or a member of an enum type.                   *)
(***************************************************************************)
NoEnum == [name |-> "", values |-> <<>>]

None == [kind |-> "none", enum |-> NoEnum, idx |-> 0, s |-> ""]

Str(s) == [kind |-> "str", enum |-> NoEnum, idx |-> 0, s |-> s]

\* The idx-th declared member of enum type E.
Member(E, idx) == [kind |-> "member", enum |-> E, idx |-> idx, s |-> ""]

Members(E) == {Member(E, i) : i \in 1..Len(E.values)}

\* member.value
member_value(m) == m.enum.values[m.idx]

\* str(member): the canonical string of the member, which is its value.
member_str(m) == member_value(m)

\* str(value), as the f-string formats the offending value.
format_value(v) ==
    CASE v.kind = "none" -> "None"
      [] v.kind = "str" -> v.s
      [] v.kind = "member" -> member_str(v)

\* repr(enum), as the f-string formats the enum type.
format_enum(E) == <<"<enum '", E.name, "'>">>

RECURSIVE join_reprs(_)
\* The items of repr(tuple): each string quoted, separated by ", ".
join_reprs(strs) ==
    IF strs = <<>> THEN <<>>
    ELSE <<"'", Head(strs), "'">> \o
         (IF Len(strs) > 1 THEN <<", ">> \o join_reprs(Tail(strs)) ELSE <<>>)

\* repr of a tuple of strings; a one-element tuple has a trailing comma.
format_tuple(strs) ==
    <<"(">> \o join_reprs(strs) \o
    (IF Len(strs) = 1 THEN <<",">> ELSE <<>>) \o <<")">>

\* enum(value): a member of the type is returned as it is, anything else is
\* looked up among the members' values; no match raises ValueError.
enum_call(E, value) ==
    IF value.kind = "member" /\ value.enum = E
    THEN Return(value)
    ELSE IF value.kind = "str" /\ \E i \in 1..Len(E.values) : E.values[i] = value.s
    THEN Return(Member(E, CHOOSE i \in 1..Len(E.values) : E.values[i] = value.s))
    ELSE Raise(<<format_value(value), " is not a valid ", E.name>>)

\* As valid_strings, listing the members last to first.
valid_strings_reversed(E) ==
    [i \in 1..Len(E.values) |-> member_str(Member(E, Len(E.values) + 1 - i))]

\* tuple(map(str, enum)): str of each member, in declaration order.
valid_strings(E) == [i \in 1..Len(E.values) |-> member_str(Member(E, i))]

(***************************************************************************)
(* validate_enum and validate_maybe_enum.  An outcome also records, in     *)
(* calls, what the function invoked on the way.                            *)
(***************************************************************************)
WithCalls(r, calls) ==
    IF r.kind = "return"
    THEN [kind |-> "return", value |-> r.value, calls |-> calls]
    ELSE [kind |-> "raise", exc |-> r.exc, msg |-> r.msg, calls |-> calls]

\* The outcome without its record of calls.
Outcome(r) ==
    IF r.kind = "return"
    THEN [kind |-> "return", value |-> r.value, msg |-> <<>>]
    ELSE [kind |-> "raise", value |-> None, msg |-> r.msg]

\* As validate_enum, returning the value it was given once enum(value)
\* has accepted it.
validate_enum_returns_value(value, enum, param) ==
    LET r == enum_call(enum, value) IN
    IF r.kind = "return"
    THEN WithCalls(Return(value), <<"enum(value)">>)
    ELSE WithCalls(
            Raise(<<"The ", param, " was not a valid value of ">>
                  \o format_enum(enum)
                  \o <<", was '", format_value(value), "'. ", "Use any of ">>
                  \o format_tuple(valid_strings(enum)) \o <<".">>),
            <<"enum(value)", "map(str, enum)">>)

validate_enum(value, enum, param) ==
    LET r == enum_call(enum, value) IN
    IF r.kind = "return"
    THEN WithCalls(r, <<"enum(value)">>)
    ELSE WithCalls(
            Raise(<<"The ", param, " was not a valid value of ">>
                  \o format_enum(enum)
                  \o <<", was '", format_value(value), "'. ", "Use any of ">>
                  \o format_tuple(valid_strings(enum)) \o <<".">>),
            <<"enum(value)", "map(str, enum)">>)

\* As validate_maybe_enum, without the test for None.
validate_maybe_enum_no_guard(value, enum, param) ==
    LET r == validate_enum(value, enum, param)
    IN  WithCalls(r, <<"validate_enum">> \o r.calls)

\* As validate_maybe_enum, testing the truth of value where the code tests
\* for None; the empty string is false too.
validate_maybe_enum_falsy(value, enum, param) ==
    IF value = None \/ value = Str("")
    THEN WithCalls(Return(None), <<>>)
    ELSE LET r == validate_enum(value, enum, param)
         IN  WithCalls(r, <<"validate_enum">> \o r.calls)

validate_maybe_enum(value, enum, param) ==
    IF value = None
    THEN WithCalls(Return(None), <<>>)
    ELSE LET r == validate_enum(value, enum, param)
         IN  WithCalls(r, <<"validate_enum">> \o r.calls)

(***************************************************************************)
(* The caller.                                                             *)
(***************************************************************************)
\* One character of each class urlsplit distinguishes: a letter, a scheme
\* character that is not a letter, the delimiters, a bracket, a blank that
\* is only stripped on the left and a blank that is removed everywhere.
Chars == {"h", "1", ":", "/", "?", "#", "[", " ", "\t"}

RECURSIVE StringsOfLen(_)
StringsOfLen(n) ==
    IF n = 0 THEN {<<>>}
    ELSE {Append(s, c) : s \in StringsOfLen(n - 1), c \in Chars}

\* A URL is given bare or behind an upper-case scheme and the "//" marker.
Prefixes == {<<>>, <<"H", ":", "/", "/">>}

Urls == {pre \o s : pre \in Prefixes,
                    s \in UNION {StringsOfLen(n) : n \in 0..MaxLen}}

\* Canonical strings the enum types are declared with.
CanonicalStrings == {"dbn", "csv", "json", "parquet"}

EnumNames == {"Encoding", "Schema"}

IsInjective(seq) ==
    \A i, j \in 1..Len(seq) : seq[i] = seq[j] => i = j

RECURSIVE SeqsOfLen(_)
SeqsOfLen(n) ==
    IF n = 0 THEN {<<>>}
    ELSE {Append(s, c) : s \in SeqsOfLen(n - 1), c \in CanonicalStrings}

\* Enum types: one to MaxMembers members with unique values, in declared order.
EnumTypes ==
    {[name |-> n, values |-> vs] :
        n \in EnumNames,
        vs \in {s \in UNION {SeqsOfLen(k) : k \in 1..MaxMembers} : IsInjective(s)}}

\* What a caller passes as value: a string, or a member of the enum type.
CallerStrings == CanonicalStrings \cup {"", "DBN", "tsv"}

EnumValues(E) == {Str(s) : s \in CallerStrings} \cup Members(E)

ParamNames == {"encoding", "schema"}

Init ==
    /\ op = "idle"
    /\ arg = NoCall
    /\ ret = NoCall
    /\ prev = NoCall

CallValidateEnum ==
    /\ op = "idle"
    /\ \E E \in EnumTypes, param \in ParamNames :
         \E value \in EnumValues(E) \cup {None} :
            /\ op' = "validate_enum"
            /\ arg' = [value |-> value, enum |-> E, param |-> param]
            /\ ret' = validate_enum(value, E, param)
            /\ prev' = NoCall

CallValidateMaybeEnum ==
    /\ op = "idle"
    /\ \E E \in EnumTypes, param \in ParamNames :
         \E value \in EnumValues(E) \cup {None} :
            /\ op' = "validate_maybe_enum"
            /\ arg' = [value |-> value, enum |-> E, param |-> param]
            /\ ret' = validate_maybe_enum(value, E, param)
            /\ prev' = NoCall

CallValidateGateway ==
    /\ op = "idle"
    /\ \E url \in Urls :
        /\ op' = "validate_gateway"
        /\ arg' = [url |-> url]
        /\ ret' = validate_gateway(url)
        /\ prev' = NoCall

\* The caller feeds the returned gateway back into validate_gateway.
CallValidateGatewayAgain ==
    /\ op = "validate_gateway"
    /\ ret.kind = "return"
    /\ op' = "validate_gateway"
    /\ arg' = [url |-> ret.value]
    /\ ret' = validate_gateway(ret.value)
    /\ prev' = [kind |-> "call", arg |-> arg, ret |-> ret]

Next ==
    \/ CallValidateEnum
    \/ CallValidateMaybeEnum
    \/ CallValidateGateway
    \/ CallValidateGatewayAgain

Spec == Init /\ [][Next]_vars

(***************************************************************************)
(* Properties.                                                             *)
(***************************************************************************)
InMsg(msg, t) == \E k \in 1..Len(msg) : msg[k] = t

\* v is a member of E or the canonical string of one.
Matches(v, E) == \E m \in Members(E) : v = m \/ v = Str(member_str(m))

\* The canonical strings of E in the order its members are declared.
CanonicalInOrder(E) == [i \in 1..Len(E.values) |-> member_str(Member(E, i))]

CanonicalSet(E) == {member_str(m) : m \in Members(E)}

HttpsPrefix == https \o <<":", "/", "/">>

\* C1: validate_enum(v, E, p) returns the member m of E, and raises nothing,
\* whenever v is m or the canonical string of m.
C1_MemberOrCanonicalStringAccepted ==
    op = "validate_enum" =>
        \A m \in Members(arg.enum) :
            (arg.value = m \/ arg.value = Str(member_str(m)))
                => (ret.kind = "return" /\ ret.value = m)

C1_Witness ==
    /\ op = "validate_enum"
    /\ arg.enum.values = <<"dbn", "csv">>
    /\ arg.value = Str("csv")
    /\ ret.kind = "return"
    /\ ret.value = Member(arg.enum, 2)

\* C2: when v matches no member and no canonical string of E, validate_enum
\* raises, and the message holds the parameter name, the offending value
\* and the canonical strings of E in declared order.
C2_NoMatchRaisesWithFullMessage ==
    (op = "validate_enum" /\ ~Matches(arg.value, arg.enum)) =>
        /\ ret.kind = "raise"
        /\ InMsg(ret.msg, arg.param)
        /\ InMsg(ret.msg, format_value(arg.value))
        /\ SelectSeq(ret.msg, LAMBDA t : t \in CanonicalSet(arg.enum))
             = CanonicalInOrder(arg.enum)

C2_Witness ==
    /\ op = "validate_enum"
    /\ arg.enum.values = <<"json", "dbn", "csv">>
    /\ arg.value = Str("DBN")
    /\ ret.kind = "raise"

\* C3: validate_maybe_enum(None, E, p) returns None without raising, and
\* neither validate_enum nor enum(value) is invoked.
C3_NoneReturnsNone ==
    (op = "validate_maybe_enum" /\ arg.value = None) =>
        /\ ret.kind = "return"
        /\ ret.value = None
        /\ ret.calls = <<>>

C3_Witness ==
    /\ op = "validate_maybe_enum"
    /\ arg.value = None
    /\ arg.enum.values = <<"dbn">>
    /\ ret.kind = "return"

\* C4: for a value other than None, validate_maybe_enum has the outcome of
\* validate_enum on the same arguments: the same member, or the same error
\* with the same message.
C4_MaybeAgreesWithValidateEnum ==
    (op = "validate_maybe_enum" /\ arg.value # None) =>
        Outcome(ret) = Outcome(validate_enum(arg.value, arg.enum, arg.param))

C4_Witness ==
    /\ op = "validate_maybe_enum"
    /\ arg.value = Str("")
    /\ ret.kind = "raise"
    /\ ret.calls = <<"validate_enum", "enum(value)", "map(str, enum)">>

\* C5 as stated: validate_gateway raises exactly when the parse yields an
\* empty network location and an empty path.
C5_RaisesExactlyOnEmptyParse ==
    op = "validate_gateway" =>
        LET url_chunks == urlsplit(arg.url) IN
        (ret.kind = "raise") <=>
            (url_chunks.ok /\ url_chunks.netloc = <<>> /\ url_chunks.path = <<>>)

\* C5 as amended: validate_gateway raises exactly when urlsplit rejects the
\* url or the parse yields an empty network location and an empty path;
\* when the parse succeeds with either of them non-empty it returns.
C5_RaisesOnRejectedOrEmptyParse ==
    op = "validate_gateway" =>
        LET url_chunks == urlsplit(arg.url) IN
        /\ (ret.kind = "raise") <=>
              \/ ~url_chunks.ok
              \/ (url_chunks.netloc = <<>> /\ url_chunks.path = <<>>)
        /\ (url_chunks.ok /\ (url_chunks.netloc # <<>> \/ url_chunks.path # <<>>))
              => ret.kind = "return"
        /\ ret.kind \in {"raise", "return"}

C5_Witness ==
    /\ op = "validate_gateway"
    /\ arg.url = <<"?", "h">>
    /\ ret.kind = "raise"
    /\ ret.msg.text = "{url} is not a valid URL"

\* C6: with a non-empty parsed network location the result is "https://",
\* the network location and the parsed path; scheme, query and fragment of
\* the input are gone.
C6_NetlocRebuilt ==
    op = "validate_gateway" =>
        LET url_chunks == urlsplit(arg.url) IN
        (url_chunks.ok /\ url_chunks.netloc # <<>>) =>
            /\ ret.kind = "return"
            /\ ret.value = HttpsPrefix \o url_chunks.netloc \o url_chunks.path

C6_Witness ==
    /\ op = "validate_gateway"
    /\ arg.url = <<"H", ":", "/", "/", "h", "/", "?", "h">>
    /\ ret.kind = "return"
    /\ ret.value = <<"h", "t", "t", "p", "s", ":", "/", "/", "h", "/">>

\* C7: with an empty parsed network location and a non-empty parsed path
\* the result is "https://" followed by the whole parsed path, slashes
\* included, and nothing after it.
C7_PathAsAuthority ==
    op = "validate_gateway" =>
        LET url_chunks == urlsplit(arg.url) IN
        (url_chunks.ok /\ url_chunks.netloc = <<>> /\ url_chunks.path # <<>>) =>
            /\ ret.kind = "return"
            /\ ret.value = HttpsPrefix \o url_chunks.path

C7_Witness ==
    /\ op = "validate_gateway"
    /\ arg.url = <<"h", "/", "h">>
    /\ ret.kind = "return"
    /\ ret.value = <<"h", "t", "t", "p", "s", ":", "/", "/", "h", "/", "h">>

\* C8: a returned string starts with "https://" and the authority handed to
\* urlunsplit (the parsed network location, or the parsed path when there
\* is none), holds no "?" and no "#", and parses back with scheme https,
\* no query and no fragment.
C8_ResultIsHttpsWithoutQueryOrFragment ==
    (op = "validate_gateway" /\ ret.kind = "return") =>
        LET url_chunks == urlsplit(arg.url)
            authority == IF url_chunks.netloc # <<>> THEN url_chunks.netloc
                         ELSE url_chunks.path
            again == urlsplit(ret.value)
        IN  /\ Prefix(ret.value, Len(HttpsPrefix) + Len(authority))
                 = HttpsPrefix \o authority
            /\ ~Contains(ret.value, "?")
            /\ ~Contains(ret.value, "#")
            /\ again.ok => /\ again.scheme = https
                           /\ again.query = <<>>
                           /\ again.fragment = <<>>

C8_Witness ==
    /\ op = "validate_gateway"
    /\ arg.url = <<"h", "?", "1", "#">>
    /\ ret.kind = "return"
    /\ ret.value = <<"h", "t", "t", "p", "s", ":", "/", "/", "h">>

\* C9: when the previous argument parsed with a non-empty network location,
\* validate_gateway applied to the previous result returns that result.
C9_IdempotentOnNetloc ==
    (op = "validate_gateway" /\ prev.kind = "call") =>
        LET url_chunks == urlsplit(prev.arg.url) IN
        (url_chunks.ok /\ url_chunks.netloc # <<>>) =>
            /\ ret.kind = "return"
            /\ ret.value = prev.ret.value

C9_Witness ==
    /\ op = "validate_gateway"
    /\ prev.kind = "call"
    /\ prev.arg.url = <<"H", ":", "/", "/", "h", "/", "#", "h">>
    /\ ret.kind = "return"
    /\ ret.value = <<"h", "t", "t", "p", "s", ":", "/", "/", "h", "/">>

\* A host, a colon, a port in digits and a suffix that starts with "/",
\* with no "//" anywhere.
HostPortPath(u) ==
    /\ \A k \in 1..(Len(u) - 1) : ~(u[k] = "/" /\ u[k + 1] = "/")
    /\ \E i \in 2..Len(u), j \in 4..Len(u) :
          /\ i + 1 < j
          /\ u[1] \in ascii_letters
          /\ \A k \in 1..(i - 1) : u[k] \in ascii_letters \cup digits \cup {".", "-"}
          /\ u[i] = ":"
          /\ \A k \in (i + 1)..(j - 1) : u[k] \in digits
          /\ u[j] = "/"
          /\ \A k \in (j + 1)..Len(u) :
                u[k] \in ascii_letters \cup digits \cup {".", "-", "/"}

\* C10: a url of the shape host:port/suffix without "//" is accepted and the
\* result is "https://" followed by the url as it was given.
C10_HostPortPathPreserved ==
    (op = "validate_gateway" /\ HostPortPath(arg.url)) =>
        /\ ret.kind = "return"
        /\ ret.value = HttpsPrefix \o arg.url

====
